---- MODULE Spec2Model ----
(***************************************************************************)
(* Model of src/app/parse.py: the item/page extractors (parse_single_      *)
(* product, parse_product_page), the pagination driver (accept_cookies,    *)
(* more_button, scrape_products), the output sink (save_products_to_csv)   *)
(* and the catalog runner (get_all_products).                              *)
(*                                                                         *)
(* Text is a sequence of one-character strings; "nbsp" stands for the      *)
(* code point U+00A0.  A float is the pair (whole, frac) of its decimal    *)
(* expansion with trailing zeros of the fraction removed, so that          *)
(* float("599.00") = float("599.0") = float("599").                        *)
(***************************************************************************)
EXTENDS Integers, Sequences, FiniteSets, TLC

\* ------------------------------------------------------------------ bounds

\* Largest number of thumbnails the site serves for one category.
MaxItems == 2

\* Largest number of faults (other than the genuine absence of the load-more
\* control) the browser raises inside more_button during one run.
MaxFaults == 1

\* SpecSink: largest number of save_products_to_csv calls, and of products
\* in one call.
MaxCalls == 2

MaxBatch == 2

\* ------------------------------------------------------- program constants

\* The six category jobs, in the order of get_all_products:
\* 1 home, 2 computers, 3 laptops, 4 tablets, 5 phones, 6 touch.
NumJobs == 6

Jobs == 1..NumJobs

JobName(j) ==
    CASE j = 1 -> "home" [] j = 2 -> "computers" [] j = 3 -> "laptops"
      [] j = 4 -> "tablets" [] j = 5 -> "phones" [] OTHER -> "touch"

\* ------------------------------------------------------------ str methods

Digits == {"0", "1", "2", "3", "4", "5", "6", "7", "8", "9"}

DigitVal(ch) ==
    CASE ch = "0" -> 0 [] ch = "1" -> 1 [] ch = "2" -> 2 [] ch = "3" -> 3
      [] ch = "4" -> 4 [] ch = "5" -> 5 [] ch = "6" -> 6 [] ch = "7" -> 7
      [] ch = "8" -> 8 [] OTHER -> 9

\* str.isspace(): U+00A0 is whitespace for str.strip(), int() and float().
White == {" ", "nbsp", "\n", "\t"}

\* s.replace(old, new) for a one-character old; new is a text.
RECURSIVE Replace(_, _, _)
Replace(s, old, new) ==
    IF s = <<>> THEN <<>>
    ELSE (IF Head(s) = old THEN new ELSE <<Head(s)>>) \o Replace(Tail(s), old, new)

RECURSIVE LStrip(_)
LStrip(s) ==
    IF s # <<>> /\ Head(s) \in White THEN LStrip(Tail(s)) ELSE s

RECURSIVE RStrip(_)
RStrip(s) ==
    IF s # <<>> /\ s[Len(s)] \in White THEN RStrip(SubSeq(s, 1, Len(s) - 1)) ELSE s

\* s.strip()
Strip(s) == RStrip(LStrip(s))

\* s.split(" ")[0]: the text before the first ordinary space (empty when s
\* starts with a space; the whole of s when it has none).
RECURSIVE FirstToken(_)
FirstToken(s) ==
    IF s = <<>> \/ Head(s) = " " THEN <<>> ELSE <<Head(s)>> \o FirstToken(Tail(s))

AllDigits(s) == \A i \in 1..Len(s) : s[i] \in Digits

RECURSIVE NatOf(_)
NatOf(s) ==
    IF s = <<>> THEN 0 ELSE 10 * NatOf(SubSeq(s, 1, Len(s) - 1)) + DigitVal(s[Len(s)])

Unsigned(s) == IF s # <<>> /\ Head(s) \in {"+", "-"} THEN Tail(s) ELSE s

IsNegative(s) == s # <<>> /\ Head(s) = "-"

\* int(s): surrounding whitespace, an optional sign, one or more digits.
IntOk(s) == LET u == Unsigned(Strip(s)) IN u # <<>> /\ AllDigits(u)

IntOf(s) ==
    LET t == Strip(s) IN IF IsNegative(t) THEN 0 - NatOf(Unsigned(t)) ELSE NatOf(Unsigned(t))

DotAt(s) == IF \E i \in 1..Len(s) : s[i] = "." THEN CHOOSE i \in 1..Len(s) : s[i] = "." /\ \A k \in 1..(i - 1) : s[k] # "." ELSE 0

WholePart(s) == IF DotAt(s) = 0 THEN s ELSE SubSeq(s, 1, DotAt(s) - 1)

FracPart(s) == IF DotAt(s) = 0 THEN <<>> ELSE SubSeq(s, DotAt(s) + 1, Len(s))

RECURSIVE DropZeros(_)
DropZeros(s) ==
    IF s # <<>> /\ s[Len(s)] = "0" THEN DropZeros(SubSeq(s, 1, Len(s) - 1)) ELSE s

\* float(s) on decimal literals: surrounding whitespace, an optional sign,
\* digits with at most one point and at least one digit.  (Exponents, "inf"
\* and "nan", which float() also accepts, use letters that no price text
\* enumerated below contains.)
FloatOk(s) ==
    LET u == Unsigned(Strip(s))
    IN /\ AllDigits(WholePart(u))
       /\ AllDigits(FracPart(u))
       /\ Len(WholePart(u)) + Len(FracPart(u)) > 0

FloatOf(s) ==
    LET t == Strip(s)
        u == Unsigned(t)
    IN [neg |-> IsNegative(t) /\ (NatOf(WholePart(u)) # 0 \/ DropZeros(FracPart(u)) # <<>>),
        whole |-> NatOf(WholePart(u)),
        frac |-> DropZeros(FracPart(u))]

\* ------------------------------------------------------------- exceptions

\* The classes imported at lines 8-13, the built-in errors the extractors
\* and the sink raise, and their base classes.
Bases(e) ==
    CASE e = "TimeoutException" -> {"WebDriverException", "Exception"}
      [] e = "NoSuchElementException" -> {"WebDriverException", "Exception"}
      [] e = "ElementNotInteractableException" -> {"WebDriverException", "Exception"}
      [] e = "ElementClickInterceptedException" -> {"WebDriverException", "Exception"}
      [] e = "WebDriverException" -> {"Exception"}
      [] OTHER -> {"Exception"}

\* isinstance(e, cls)
IsInstance(e, cls) == e = cls \/ cls \in Bases(e)

ParseErrors == {"TypeError", "AttributeError", "ValueError"}

\* ----------------------------------------------------------------- markup

\* A thumbnail fragment: for each selector of parse_single_product the text
\* (or attribute) of the element select_one finds, as a sequence of length 1,
\* or <<>> when select_one finds nothing; stars is the number of
\* "p > .ws-icon-star" elements.  origin, pos and kind say which category
\* page served the fragment, at which place, and how it was built.
ThumbKinds == {"good", "noTitle", "badPrice", "badReview"}

Digit(n) == CASE n % 10 = 0 -> "0" [] n % 10 = 1 -> "1" [] n % 10 = 2 -> "2" [] n % 10 = 3 -> "3" [] n % 10 = 4 -> "4" [] n % 10 = 5 -> "5" [] n % 10 = 6 -> "6" [] n % 10 = 7 -> "7" [] n % 10 = 8 -> "8" [] OTHER -> "9"

TitleText(c, i) == <<JobName(c), "#", Digit(i)>>

DescriptionText(c, i) ==
    IF i % 2 = 1 THEN <<"\n", "A", "nbsp", Digit(c), " ">> ELSE <<"B", " ", Digit(c)>>

PriceText(c, i) ==
    CASE i % 3 = 1 -> <<"$", "5", "9", Digit(c), ".", "0", "0">>
      [] i % 3 = 2 -> <<" ", "$", "1", Digit(c), ".", "5", "\n">>
      [] OTHER -> <<"$", Digit(c)>>

ReviewText(c, i) == <<Digit(i), Digit(c), " ", "r", "e", "v", "i", "e", "w", "s">>

SiteThumb(c, i, kind) ==
    [origin |-> c, pos |-> i, kind |-> kind,
     title |-> IF kind = "noTitle" THEN <<>> ELSE <<TitleText(c, i)>>,
     description |-> <<DescriptionText(c, i)>>,
     price |-> IF kind = "badPrice"
               THEN <<<<"$", "N", "/", "A">>>>
               ELSE <<PriceText(c, i)>>,
     stars |-> (c + i) % 6,
     review |-> IF kind = "badReview"
                THEN <<<<"m", "a", "n", "y", " ", "r", "e", "v", "i", "e", "w", "s">>>>
                ELSE <<ReviewText(c, i)>>]

\* ------------------------------------------------------------- extractors

\* parse_single_product: the exception of the first statement that raises,
\* in statement order, or "none" and the Product.
ParseExc(t) ==
    IF t.title = <<>> THEN "TypeError"
    ELSE IF t.description = <<>> THEN "AttributeError"
    ELSE IF t.price = <<>> THEN "AttributeError"
    ELSE IF ~FloatOk(Replace(t.price[1], "$", <<>>)) THEN "ValueError"
    ELSE IF t.review = <<>> THEN "AttributeError"
    ELSE IF ~IntOk(FirstToken(t.review[1])) THEN "ValueError"
    ELSE "none"

parse_single_product(t) ==
    IF ParseExc(t) # "none"
    THEN [exc |-> ParseExc(t), product |-> <<>>]
    ELSE [exc |-> "none",
          product |-> <<[title |-> t.title[1],
                         description |-> Strip(Replace(t.description[1], "nbsp", <<" ">>)),
                         price |-> FloatOf(Replace(t.price[1], "$", <<>>)),
                         rating |-> t.stars,
                         num_of_reviews |-> IntOf(FirstToken(t.review[1]))]>>]

RECURSIVE Flatten(_)
Flatten(ss) == IF ss = <<>> THEN <<>> ELSE Head(ss) \o Flatten(Tail(ss))

\* A page extractor that leaves out the thumbnails that do not parse.
parse_product_page_skipping(soup) ==
    [exc |-> "none",
     products |-> Flatten([i \in 1..Len(soup) |-> parse_single_product(soup[i]).product])]

\* parse_product_page: the list comprehension over the thumbnails in
\* document order; the first item that raises ends it and no list is built.
parse_product_page(soup) ==
    LET bad == {i \in 1..Len(soup) : parse_single_product(soup[i]).exc # "none"}
        first == CHOOSE i \in bad : \A k \in bad : i <= k
    IN IF bad # {}
       THEN [exc |-> parse_single_product(soup[first]).exc, products |-> <<>>]
       ELSE [exc |-> "none",
             products |-> [i \in 1..Len(soup) |-> parse_single_product(soup[i]).product[1]]]

\* ------------------------------------------------------------ output sink

HeaderRow ==
    [kind |-> "header",
     cells |-> <<"title", "description", "price", "rating", "num_of_reviews">>]

DataRow(p) ==
    [kind |-> "data",
     cells |-> <<p.title, p.description, p.price, p.rating, p.num_of_reviews>>]

\* A destination: whether the file exists, and its rows (size 0 = no row).
NoFile == [exists |-> FALSE, rows |-> <<>>]

EmptyFile == [exists |-> TRUE, rows |-> <<>>]

\* A sink that writes the header on every call.
NeedsHeaderAlways(f) == TRUE

\* Line 129: not file_exists or is_file_empty.
NeedsHeader(f) == ~f.exists \/ Len(f.rows) = 0

\* save_products_to_csv: the file after the call, given the file before it.
save_products_to_csv(ps, f) ==
    [exists |-> TRUE,
     rows |-> f.rows \o (IF NeedsHeader(f) THEN <<HeaderRow>> ELSE <<>>)
                     \o [i \in 1..Len(ps) |-> DataRow(ps[i])]]

\* --------------------------------------------------------- catalog runner

\* A runner without the finally clause: an exception leaves at once.
OnExceptionNoFinally == "raised"

\* Lines 148, 162-163: an exception raised inside the try block runs the
\* finally clause before it leaves get_all_products.
OnException == "finally"

\* Lines 149-156: after the scrape of job j comes the scrape of job j + 1;
\* after the sixth scrape comes the first save.
AfterScrape(j) ==
    IF j < NumJobs THEN [pc |-> "get", job |-> j + 1] ELSE [pc |-> "save", job |-> 1]

\* Lines 156-163: after the save of job j comes the save of job j + 1; after
\* the sixth save comes the finally clause.
AfterSave(j) ==
    IF j < NumJobs THEN [pc |-> "save", job |-> j + 1] ELSE [pc |-> "finally", job |-> j]

\* A runner that writes the phones list to touch.csv and the touch list to
\* phones.csv.
DestinationSwapped(j) == IF j = 5 THEN 6 ELSE IF j = 6 THEN 5 ELSE j

\* Lines 156-161: the j-th save writes the j-th scrape's list to the j-th
\* file.
Destination(j) == j

\* ------------------------------------------------------ pagination driver

\* A cookie step that handles only the first except clause.
CookieCatchesNarrow(e) ==
    \/ IsInstance(e, "TimeoutException")
    \/ IsInstance(e, "NoSuchElementException")
    \/ IsInstance(e, "ElementNotInteractableException")

\* Lines 73-80: the two except clauses of accept_cookies.
CookieCatches(e) ==
    \/ IsInstance(e, "TimeoutException")
    \/ IsInstance(e, "NoSuchElementException")
    \/ IsInstance(e, "ElementNotInteractableException")
    \/ IsInstance(e, "WebDriverException")

\* A load-more step that handles the timeout only.
MoreCatchesTimeoutOnly(e) == IsInstance(e, "TimeoutException")

\* Lines 95-98: the two except clauses of more_button.
MoreCatches(e) == IsInstance(e, "TimeoutException") \/ IsInstance(e, "Exception")

\* A load-more step that falls through to the final return on success too.
more_button_never_true(e) == FALSE

\* Lines 94, 99: more_button returns True when nothing was raised (e is
\* "none") and False after a handled exception.
more_button(e) == e = "none"

\* ------------------------------------------------------------------ state

VARIABLES
    pc,               \* where get_all_products / scrape_products stands
    job,              \* the category job being scraped or saved
    exc,              \* the exception in flight ("none": none)
    excAt,            \* where it was raised: [stage, job]
    session,          \* the browser session: "none", "open", "closed"
    quits,            \* number of driver.quit() calls
    usedAfterQuit,    \* a browser operation ran on a session that is not open
    siteLens,         \* the catalog lengths the site may serve
    page,             \* the browser's page: [url, catalog, shown]
    page_soup,        \* scrape_products: the thumbnails of the captured markup
    last,             \* scrape_products: outcome of the last cookie / load-more step
    cookieTries,      \* scrape_products: accept_cookies calls of this job
    attempts,         \* scrape_products: more_button calls of this job
    expansions,       \* scrape_products: more_button calls that returned True
    captures,         \* scrape_products: reads of driver.page_source
    faultsUsed,       \* faults raised inside more_button so far in the run
    products,         \* products_home .. products_touch
    servedLen,        \* per category, the number of thumbnails the site held
    captured,         \* per category, the thumbnails of the markup parsed
    files,            \* home.csv .. touch.csv
    fresh,            \* the state of the six files before the run
    sinkCalls         \* per destination, the product lists written to it

vars ==
    <<pc, job, exc, excAt, session, quits, usedAfterQuit, siteLens, page,
      page_soup, last, cookieTries, attempts, expansions, captures, faultsUsed,
      products, servedLen, captured, files, fresh, sinkCalls>>

Min(a, b) == IF a < b THEN a ELSE b

Unset == [set |-> FALSE, val |-> <<>>]

BadKinds == ThumbKinds \ {"good"}

NoStep ==
    [op |-> "none", point |-> "none", exc |-> "none", present |-> FALSE,
     fault |-> FALSE, handled |-> TRUE, ret |-> FALSE]

\* What the site may hold for category c: a catalog of one of the given
\* lengths, at most one of its thumbnails malformed.
Catalogs(c, lens) ==
    UNION {
        {[i \in 1..n |-> SiteThumb(c, i, "good")]}
        \cup {[i \in 1..n |-> SiteThumb(c, i, IF i = b THEN k ELSE "good")] :
                b \in 1..n, k \in BadKinds}
        : n \in lens}

InitCommon ==
    /\ exc = "none"
    /\ excAt = [stage |-> "none", job |-> 0]
    /\ quits = 0
    /\ usedAfterQuit = FALSE
    /\ page_soup = <<>>
    /\ last = NoStep
    /\ cookieTries = 0
    /\ attempts = 0
    /\ expansions = 0
    /\ captures = 0
    /\ faultsUsed = 0
    /\ sinkCalls = [c \in Jobs |-> <<>>]

\* The state before get_all_products runs: no session, no output file.  The
\* site's categories are empty or hold MaxItems thumbnails.
Init ==
    /\ InitCommon
    /\ pc = "create"
    /\ job = 1
    /\ session = "none"
    /\ siteLens = {0, MaxItems}
    /\ page = [url |-> 0, catalog |-> <<>>, shown |-> 0]
    /\ products = [c \in Jobs |-> Unset]
    /\ servedLen = [c \in Jobs |-> 0]
    /\ captured = [c \in Jobs |-> <<>>]
    /\ fresh = NoFile
    /\ files = [c \in Jobs |-> fresh]

\* raise e at the given stage of the current job, inside the try block.
Raise(e, stage) ==
    /\ exc' = e
    /\ excAt' = [stage |-> stage, job |-> job]
    /\ pc' = OnException

\* Line 146: webdriver.Chrome(...), before the try block.
CreateDriver ==
    /\ pc = "create"
    /\ \E ok \in BOOLEAN :
         IF ok
         THEN /\ session' = "open"
              /\ pc' = "get"
              /\ UNCHANGED <<exc, excAt>>
         ELSE /\ session' = session
              /\ pc' = "raised"
              /\ exc' = "WebDriverException"
              /\ excAt' = [stage |-> "create", job |-> 0]
    /\ UNCHANGED <<job, quits, usedAfterQuit, siteLens, page, page_soup, last,
                   cookieTries, attempts, expansions, captures, faultsUsed,
                   products, servedLen, captured, files, fresh, sinkCalls>>

\* Lines 103-104: all_products = [] and driver.get(url).
Get ==
    /\ pc = "get"
    /\ usedAfterQuit' = (usedAfterQuit \/ session # "open")
    /\ page_soup' = <<>>
    /\ last' = NoStep
    /\ cookieTries' = 0
    /\ attempts' = 0
    /\ expansions' = 0
    /\ captures' = 0
    /\ \/ \E cat \in Catalogs(job, siteLens) :
            /\ page' = [url |-> job, catalog |-> cat, shown |-> Min(1, Len(cat))]
            /\ servedLen' = [servedLen EXCEPT ![job] = Len(cat)]
            /\ pc' = "cookies"
            /\ UNCHANGED <<exc, excAt>>
       \/ /\ Raise("WebDriverException", "get")
          /\ UNCHANGED <<page, servedLen>>
    /\ UNCHANGED <<job, session, quits, siteLens, faultsUsed, products, captured,
                   files, fresh, sinkCalls>>

\* What the wait and the click of accept_cookies may end with: "none" is
\* banner found and clicked.
CookieOutcomes ==
    {"none", "TimeoutException", "NoSuchElementException",
     "ElementNotInteractableException", "ElementClickInterceptedException",
     "WebDriverException"}

\* Line 106 with lines 67-80: accept_cookies(driver).
AcceptCookies ==
    /\ pc = "cookies"
    /\ usedAfterQuit' = (usedAfterQuit \/ session # "open")
    /\ cookieTries' = cookieTries + 1
    /\ \E e \in CookieOutcomes :
         LET handled == e = "none" \/ CookieCatches(e)
         IN /\ last' = [op |-> "cookies", point |-> "cookies", exc |-> e,
                        present |-> e = "none", fault |-> e # "none",
                        handled |-> handled, ret |-> FALSE]
            /\ IF handled
               THEN pc' = "more" /\ UNCHANGED <<exc, excAt>>
               ELSE Raise(e, "cookies")
    /\ UNCHANGED <<job, session, quits, siteLens, page, page_soup, attempts,
                   expansions, captures, faultsUsed, products, servedLen,
                   captured, files, fresh, sinkCalls>>

\* What one call of more_button may meet, given whether the load-more control
\* is there to be clicked (thumbnails remain to be revealed): the point
\* reached and the exception raised there.  An absent control times the
\* first wait out.  A present control is clicked and more_button returns, or
\* a fault is raised: at the first wait, at the click, or (the click
\* accepted) at the second wait.
MoreOutcomes(present) ==
    IF ~present
    THEN {[point |-> "wait", exc |-> "TimeoutException", fault |-> FALSE]}
    ELSE {[point |-> "return", exc |-> "none", fault |-> FALSE]}
         \cup (IF faultsUsed < MaxFaults
               THEN {[point |-> "wait", exc |-> "TimeoutException", fault |-> TRUE],
                     [point |-> "wait", exc |-> "WebDriverException", fault |-> TRUE],
                     [point |-> "click", exc |-> "ElementClickInterceptedException", fault |-> TRUE],
                     [point |-> "click", exc |-> "WebDriverException", fault |-> TRUE],
                     [point |-> "postwait", exc |-> "WebDriverException", fault |-> TRUE]}
               ELSE {})

\* Lines 108-109 with lines 83-99: one evaluation of the loop condition, that
\* is one call of more_button(driver).  A click the page accepts reveals the
\* next thumbnail.
MoreButton ==
    /\ pc = "more"
    /\ usedAfterQuit' = (usedAfterQuit \/ session # "open")
    /\ attempts' = attempts + 1
    /\ \E o \in MoreOutcomes(page.shown < Len(page.catalog)) :
         LET present == page.shown < Len(page.catalog)
             clicked == o.point \in {"return", "postwait"}
             handled == o.exc = "none" \/ MoreCatches(o.exc)
             ret == handled /\ more_button(o.exc)
         IN /\ page' = [page EXCEPT !.shown = IF clicked THEN @ + 1 ELSE @]
            /\ faultsUsed' = IF o.fault THEN faultsUsed + 1 ELSE faultsUsed
            /\ expansions' = IF ret THEN expansions + 1 ELSE expansions
            /\ last' = [op |-> "more", point |-> o.point, exc |-> o.exc,
                        present |-> present, fault |-> o.fault,
                        handled |-> handled, ret |-> ret]
            /\ IF handled
               THEN /\ pc' = IF ret THEN "more" ELSE "source"
                    /\ UNCHANGED <<exc, excAt>>
               ELSE Raise(o.exc, "more")
    /\ UNCHANGED <<job, session, quits, siteLens, page_soup, cookieTries,
                   captures, products, servedLen, captured, files, fresh,
                   sinkCalls>>

\* Line 111: BeautifulSoup(driver.page_source, "html.parser").
PageSource ==
    /\ pc = "source"
    /\ usedAfterQuit' = (usedAfterQuit \/ session # "open")
    /\ \/ /\ page_soup' = SubSeq(page.catalog, 1, page.shown)
          /\ captures' = captures + 1
          /\ pc' = "parse"
          /\ UNCHANGED <<exc, excAt>>
       \/ /\ Raise("WebDriverException", "source")
          /\ UNCHANGED <<page_soup, captures>>
    /\ UNCHANGED <<job, session, quits, siteLens, page, last, cookieTries,
                   attempts, expansions, faultsUsed, products, servedLen,
                   captured, files, fresh, sinkCalls>>

\* Lines 112-114 and the assignment at lines 149-154: parse_product_page, the
\* return of scrape_products and the binding of products_<job>.
ParsePage ==
    /\ pc = "parse"
    /\ LET r == parse_product_page(page_soup)
       IN IF r.exc = "none"
          THEN /\ products' = [products EXCEPT ![job] = [set |-> TRUE, val |-> r.products]]
               /\ captured' = [captured EXCEPT ![job] = page_soup]
               /\ pc' = AfterScrape(job).pc
               /\ job' = AfterScrape(job).job
               /\ page_soup' = <<>>
               /\ last' = NoStep
               /\ cookieTries' = 0
               /\ attempts' = 0
               /\ expansions' = 0
               /\ captures' = 0
               /\ UNCHANGED <<exc, excAt>>
          ELSE /\ Raise(r.exc, "parse")
               /\ UNCHANGED <<products, captured, job, page_soup, last,
                              cookieTries, attempts, expansions, captures>>
    /\ UNCHANGED <<session, quits, usedAfterQuit, siteLens, page, faultsUsed,
                   servedLen, files, fresh, sinkCalls>>

\* Lines 156-161: one save_products_to_csv call; open() may raise OSError.
Save ==
    /\ pc = "save"
    /\ \/ /\ files' = [files EXCEPT ![Destination(job)] =
                          save_products_to_csv(products[job].val, @)]
          /\ sinkCalls' = [sinkCalls EXCEPT ![Destination(job)] =
                              Append(@, products[job].val)]
          /\ pc' = AfterSave(job).pc
          /\ job' = AfterSave(job).job
          /\ UNCHANGED <<exc, excAt>>
       \/ /\ Raise("OSError", "save")
          /\ UNCHANGED <<files, sinkCalls, job>>
    /\ UNCHANGED <<session, quits, usedAfterQuit, siteLens, page, page_soup, last,
                   cookieTries, attempts, expansions, captures, faultsUsed,
                   products, servedLen, captured, fresh>>

\* Lines 162-163: the finally clause, then the return or the re-raise.
Quit ==
    /\ pc = "finally"
    /\ session' = "closed"
    /\ quits' = quits + 1
    /\ pc' = IF exc = "none" THEN "done" ELSE "raised"
    /\ UNCHANGED <<job, exc, excAt, usedAfterQuit, siteLens, page, page_soup,
                   last, cookieTries, attempts, expansions, captures,
                   faultsUsed, products, servedLen, captured, files, fresh,
                   sinkCalls>>

Next ==
    \/ CreateDriver
    \/ Get
    \/ AcceptCookies
    \/ MoreButton
    \/ PageSource
    \/ ParsePage
    \/ Save
    \/ Quit

Spec == Init /\ [][Next]_vars

\* ------------------------------------------- one category job on its own

Prod(c, i) == parse_single_product(SiteThumb(c, i, "good")).product[1]

\* The state in which get_all_products calls scrape_products for job j: the
\* session is open, and every earlier job has scraped a page of one
\* thumbnail.  The site may serve any catalog of up to MaxItems thumbnails.
InitDriver ==
    /\ InitCommon
    /\ pc = "get"
    /\ job \in Jobs
    /\ session = "open"
    /\ siteLens = 0..MaxItems
    /\ page = IF job = 1
              THEN [url |-> 0, catalog |-> <<>>, shown |-> 0]
              ELSE [url |-> job - 1, catalog |-> <<SiteThumb(job - 1, 1, "good")>>,
                    shown |-> 1]
    /\ products = [c \in Jobs |-> IF c < job THEN [set |-> TRUE, val |-> <<Prod(c, 1)>>]
                                  ELSE Unset]
    /\ servedLen = [c \in Jobs |-> IF c < job THEN 1 ELSE 0]
    /\ captured = [c \in Jobs |-> IF c < job THEN <<SiteThumb(c, 1, "good")>> ELSE <<>>]
    /\ fresh = NoFile
    /\ files = [c \in Jobs |-> fresh]

\* The steps of that call, up to its return or to the end of the run it
\* aborts.
NextDriver ==
    \/ Get /\ job' = job
    \/ AcceptCookies /\ job' = job
    \/ MoreButton /\ job' = job
    \/ PageSource /\ job' = job
    \/ ParsePage /\ job' = job /\ pc' = OnException
    \/ Quit /\ job' = job

SpecDriver == InitDriver /\ [][NextDriver]_vars

\* ------------------------------------------- the output sink on its own

SinkProducts == {Prod(1, 1), Prod(1, 2)}

Batches == UNION {[1..n -> SinkProducts] : n \in 0..MaxBatch}

SinkDests == {1, 2}

\* A destination that does not exist, or exists and is empty.
InitSink ==
    /\ InitCommon
    /\ pc = "sink"
    /\ job = 1
    /\ session = "none"
    /\ siteLens = {}
    /\ page = [url |-> 0, catalog |-> <<>>, shown |-> 0]
    /\ products = [c \in Jobs |-> Unset]
    /\ servedLen = [c \in Jobs |-> 0]
    /\ captured = [c \in Jobs |-> <<>>]
    /\ fresh \in {NoFile, EmptyFile}
    /\ files = [c \in Jobs |-> fresh]

\* One call save_products_to_csv(ps, <destination d>), as a caller may make
\* it run after run.
SinkCall ==
    /\ pc = "sink"
    /\ Len(sinkCalls[1]) + Len(sinkCalls[2]) < MaxCalls
    /\ \E d \in SinkDests, ps \in Batches :
         /\ files' = [files EXCEPT ![d] = save_products_to_csv(ps, @)]
         /\ sinkCalls' = [sinkCalls EXCEPT ![d] = Append(@, ps)]
    /\ UNCHANGED <<pc, job, exc, excAt, session, quits, usedAfterQuit, siteLens,
                   page, page_soup, last, cookieTries, attempts, expansions,
                   captures, faultsUsed, products, servedLen, captured, fresh>>

NextSink == SinkCall

SpecSink == InitSink /\ [][NextSink]_vars

\* ----------------------------------------------------------------- claims

Terminal == pc \in {"done", "raised"}

\* Waiting to read, or having read, the page markup of the current job.
Exhausted == pc \in {"source", "parse"}

\* The file of category c has been written to.
Written(c) == files[c].exists /\ Len(files[c].rows) > 0

\* The product list of category c has been passed to the output sink.
Saved(c) == Len(sinkCalls[c]) > 0

Malformed(soup) == \E i \in 1..Len(soup) : soup[i].kind # "good"

\* The expansions the load-more control of the current page grants: one per
\* thumbnail beyond those the page shows when it is opened.
Grantable == Len(page.catalog) - Min(1, Len(page.catalog))

\* C1: when every more_button call of a job meets either a control that
\* works or a control that is absent (no fault), more_button returns True
\* exactly n times, n the expansions the page grants: while expanding, every
\* call so far returned True and there were at most n; once the loop has
\* ended there were n True returns and n + 1 calls, the last one meeting the
\* absent control; the markup is read once, after the loop.
C1_PaginationExact ==
    /\ pc = "more" => /\ expansions = attempts
                      /\ expansions <= Grantable
                      /\ captures = 0
    /\ (Exhausted /\ ~last.fault) =>
          /\ last.op = "more"
          /\ ~last.present
          /\ expansions = Grantable
          /\ attempts = Grantable + 1
          /\ page.shown = Len(page.catalog)
          /\ captures = IF pc = "parse" THEN 1 ELSE 0

\* C1 witness: a job whose control granted one expansion or more, then was
\* absent, with the markup read.
C1_Witness ==
    /\ pc = "parse"
    /\ ~last.fault
    /\ expansions >= 1
    /\ expansions = Grantable
    /\ captures = 1

\* C2 (as claimed): a fault met while the control is present does not end the
\* expansion loop, so the loop ends only with every granted expansion made.
C2_TransientKeepsClicking ==
    Exhausted => /\ ~(last.fault /\ last.present)
                 /\ page.shown = Len(page.catalog)

\* C3: a destination that did not exist or was empty holds, after one or more
\* calls, one header row, first, then the rows of all the calls in call order,
\* duplicates included; a destination never written to is as it was.
C3_HeaderOnce ==
    \A d \in Jobs :
        LET rows == files[d].rows
            all == Flatten(sinkCalls[d])
        IN IF sinkCalls[d] = <<>>
           THEN files[d] = fresh
           ELSE /\ files[d].exists
                /\ Len(rows) = 1 + Len(all)
                /\ rows[1].kind = "header"
                /\ \A i \in 2..Len(rows) : rows[i].kind = "data"
                /\ \A i \in 1..Len(all) : rows[i + 1].cells = DataRow(all[i]).cells

\* C3 witness: the same non-empty list written twice to a destination that
\* existed and was empty: one header and twice the rows.
C3_Witness ==
    \E d \in SinkDests :
        /\ fresh = EmptyFile
        /\ Len(sinkCalls[d]) = 2
        /\ sinkCalls[d][1] = sinkCalls[d][2]
        /\ Len(sinkCalls[d][1]) >= 1
        /\ Len(files[d].rows) = 1 + 2 * Len(sinkCalls[d][1])

\* C4 (as claimed): a run that completes has written the six files; a run
\* that a parse failure in category k aborts has written the files of the
\* categories before k and no other.
C4_PartialOutput ==
    /\ pc = "done" => \A c \in Jobs : Written(c)
    /\ (pc = "raised" /\ excAt.stage = "parse") =>
          \A c \in Jobs : Written(c) <=> c < excAt.job

\* C5: once the session is created it is quit exactly once on every way out
\* of get_all_products, after the last scrape or save, and no browser
\* operation runs on a session that is not open.
C5_Release ==
    /\ quits <= 1
    /\ ~usedAfterQuit
    /\ session = "closed" <=> quits = 1
    /\ session = "closed" => Terminal
    /\ (Terminal /\ excAt.stage # "create") => session = "closed"
    /\ pc \in {"get", "cookies", "more", "source"} => session = "open"

\* C5 witness: the third save raised, and the run ended with the session quit
\* once.
C5_Witness ==
    /\ pc = "raised"
    /\ excAt = [stage |-> "save", job |-> 3]
    /\ session = "closed"
    /\ quits = 1

\* C6: a captured page with a malformed thumbnail makes parse_product_page
\* raise: the run is in or past its finally clause with a parse error raised
\* by this job, the job has no product list, no file has a row, and the
\* browser is still on this job's page; no page with a malformed thumbnail
\* ever yielded a product list.
C6_ParseFatal ==
    /\ \A c \in Jobs : ~Malformed(captured[c])
    /\ (Malformed(page_soup) /\ pc # "parse") =>
          /\ exc \in ParseErrors
          /\ excAt = [stage |-> "parse", job |-> job]
          /\ pc \in {"finally", "raised"}
          /\ \A c \in Jobs : c >= job => ~products[c].set
          /\ \A c \in Jobs : ~Written(c)
          /\ page.url = job

\* C6 witness: the second category's page has a well-formed thumbnail and
\* then one priced "$N/A"; the run ended with the parse error.
C6_Witness ==
    /\ pc = "raised"
    /\ excAt = [stage |-> "parse", job |-> 2]
    /\ exc = "ValueError"
    /\ Len(page_soup) = 2
    /\ page_soup[1].kind = "good"
    /\ page_soup[2].kind = "badPrice"

\* C7: after a run that succeeds, starting with no output file, the file of
\* each category holds the header and then one row per thumbnail of the
\* markup captured for that category, in document order, each thumbnail
\* served by that category's page; when no fault was raised inside
\* more_button, that markup holds every thumbnail the site held.
C7_Routing ==
    pc = "done" =>
        \A c \in Jobs :
            LET rows == files[c].rows
                cap == captured[c]
            IN /\ Len(rows) = 1 + Len(cap)
               /\ rows[1].kind = "header"
               /\ \A i \in 1..Len(cap) :
                     /\ cap[i].origin = c
                     /\ cap[i].pos = i
                     /\ rows[i + 1].kind = "data"
                     /\ rows[i + 1].cells[1] = cap[i].title[1]
                     /\ rows[i + 1].cells[4] = cap[i].stars
                     /\ rows[i + 1].cells = DataRow(parse_single_product(cap[i]).product[1]).cells
               /\ faultsUsed = 0 => Len(cap) = servedLen[c]

\* C7 witness: a run without fault that ended with phones.csv holding MaxItems
\* rows and touch.csv, whose category is empty, the header alone.
C7_Witness ==
    /\ pc = "done"
    /\ faultsUsed = 0
    /\ Len(files[5].rows) = 1 + MaxItems
    /\ Len(files[6].rows) = 1

\* C8 (as claimed): a job's product list is passed to the output sink before
\* the browser opens the next job's page, so at most one product list is
\* held unsaved.
C8_OneWorkingSet ==
    /\ Cardinality({c \in Jobs : products[c].set /\ ~Saved(c)}) <= 1
    /\ pc \in {"cookies", "more", "source", "parse"} => \A c \in Jobs : c < job => Saved(c)

C10_CookieNeverFatal ==
    /\ excAt.stage # "cookies"
    /\ last.op = "cookies" => last.handled /\ pc = "more" /\ attempts = 0
    /\ pc = "cookies" => cookieTries = 0 /\ attempts = 0
    /\ pc = "more" => cookieTries = 1
    /\ Exhausted => cookieTries = 1 /\ attempts >= 1
    /\ attempts >= 1 => cookieTries = 1

\* C10 witness: the cookie step of the fourth job met a WebDriverException
\* and the job stands at its first more_button call.
C10_Witness ==
    /\ job = 4
    /\ last.op = "cookies"
    /\ last.exc = "WebDriverException"
    /\ pc = "more"
    /\ cookieTries = 1

====
